---- MODULE Spec2Model ----
(***************************************************************************)
(* SvdProps (src/package/src/subsetSummary.cpp): the exported entry point  *)
(* that takes a handle to a bigmemory BigMatrix and an IntegerVector of    *)
(* 1-based column indices.  The function wraps the handle, checks the      *)
(* indices against the matrix's column count and throws std::out_of_range  *)
(* when the check fires.  The body ends right after the check: control     *)
(* that passes the check flows off the end of a function declared to       *)
(* return an Rcpp::List, which is undefined behaviour.                     *)
(*                                                                         *)
(* One invocation is a small process (pc); several invocations may run     *)
(* against the same backing matrix.                                        *)
(***************************************************************************)
EXTENDS Integers, Sequences, FiniteSets, TLC

\* ---- bounds of the model ------------------------------------------------
NRow == 2       \* rows of the backing matrix
MaxCol == 2     \* the backing matrix has 1..MaxCol columns
MaxLen == 2     \* subsetIndices has 0..MaxLen entries
NCalls == 2     \* concurrent invocations in SpecConc

\* R's NA_integer_ is INT_MIN; an IntegerVector stores it like any other int.
NA_INTEGER == (-2147483647) - 1

\* ---- Rcpp sugar used by the bounds check --------------------------------
\* An Rcpp logical is TRUE, FALSE or NA.

\* subsetIndices <= rhs, one element (Comparator_With_One_Value): an NA on
\* either side gives NA, otherwise the C++ comparison.
LessOrEqual(x, rhs) ==
    IF rhs = NA_INTEGER \/ x = NA_INTEGER THEN "NA"
    ELSE IF x <= rhs THEN "TRUE" ELSE "FALSE"

\* subsetIndices > rhs, one element.
Greater(x, rhs) ==
    IF rhs = NA_INTEGER \/ x = NA_INTEGER THEN "NA"
    ELSE IF x > rhs THEN "TRUE" ELSE "FALSE"

\* any(lv): TRUE as soon as one element is TRUE; otherwise NA if an element
\* was NA; otherwise FALSE (also for the empty vector).
any(lv) ==
    IF \E i \in 1..Len(lv) : lv[i] = "TRUE" THEN "TRUE"
    ELSE IF \E i \in 1..Len(lv) : lv[i] = "NA" THEN "NA"
    ELSE "FALSE"

\* is_true(x): only a definite TRUE counts.
is_true(x) == x = "TRUE"

\* is_true(any(subsetIndices <= 0)), line 39.
AnyNonPositive(idx) ==
    is_true(any([i \in 1..Len(idx) |-> LessOrEqual(idx[i], 0)]))

\* is_true(any(subsetIndices > xpDat->ncol())), line 40.
AnyAboveNcol(idx, nc) ==
    is_true(any([i \in 1..Len(idx) |-> Greater(idx[i], nc)]))

\* ---- values --------------------------------------------------------------
\* The values an entry of subsetIndices takes in the model: NA, 0, the
\* valid columns and one past the largest matrix.
IndexValues == {NA_INTEGER} \cup (0..(MaxCol + 1))

\* All sequences over S of length lo..hi.
SeqsOf(S, lo, hi) == UNION {[1..n -> S] : n \in lo..hi}

IndexLists == SeqsOf(IndexValues, 0, MaxLen)

\* The values of a matrix element in the model.
Elements == {0, 1}

\* A BigMatrix: its dimensions and its column-major data, matrix[j][i] being
\* row i of column j.
BigMatrices ==
    UNION {{[nrow |-> NRow, ncol |-> c, matrix |-> m] :
              m \in [1..c -> [1..NRow -> Elements]]} : c \in 1..MaxCol}

\* No List was produced.
NoResult == [eigenvector |-> <<>>, varianceExplained |-> -1, present |-> FALSE]

\* What the caller may find in the return slot after control flowed off the
\* end of SvdProps: the List was never constructed, so its contents are
\* indeterminate.  Representatives: eigenvectors of NRow-1 or NRow entries
\* over {-1, 1}, varianceExplained (in percent) of 0, 100 or 200.
Indeterminate ==
    {[eigenvector |-> e, varianceExplained |-> v, present |-> TRUE] :
        e \in SeqsOf({-1, 1}, NRow - 1, NRow), v \in {0, 100, 200}}

\* ---- state ---------------------------------------------------------------
VARIABLES
    pDat,           \* the backing BigMatrix behind the handle
    calls,          \* the invocations of this behaviour
    pc,             \* pc[p]: where invocation p stands
    subsetIndices,  \* subsetIndices[p]: the argument of invocation p
    outcome,        \* outcome[p]: "none", "out_of_range", "crashed", "returned"
    result,         \* result[p]: what the caller received
    reads,          \* reads[p]: matrix elements read so far by p
    stages,         \* stages[p]: the stages p has run, in order
    work            \* work[p]: the working copy p owns (<<>>: none)

vars == <<pDat, calls, pc, subsetIndices, outcome, result, reads, stages, work>>

\* The handle as it would behave had it been built as the owner of the
\* pointee: releasing it deletes the matrix.
ReleaseHandle_Owning(m) == [nrow |-> 0, ncol |-> 0, matrix |-> <<>>]

\* XPtr<BigMatrix> built from an existing SEXP does not own the pointee: when
\* the handle goes out of scope the matrix stays as it is.
ReleaseHandle(m) == m

InitCalls(n) ==
    /\ pDat \in BigMatrices
    /\ calls = 1..n
    /\ pc = [p \in 1..n |-> "idle"]
    /\ subsetIndices = [p \in 1..n |-> <<>>]
    /\ outcome = [p \in 1..n |-> "none"]
    /\ result = [p \in 1..n |-> NoResult]
    /\ reads = [p \in 1..n |-> 0]
    /\ stages = [p \in 1..n |-> <<>>]
    /\ work = [p \in 1..n |-> <<>>]

\* One invocation.
Init == InitCalls(1)

\* NCalls invocations against the same matrix.
InitConc == InitCalls(NCalls)

\* The caller invokes SvdProps(pDat, idx).
Invoke(p) ==
    /\ pc[p] = "idle"
    /\ \E idx \in IndexLists :
          subsetIndices' = [subsetIndices EXCEPT ![p] = idx]
    /\ pc' = [pc EXCEPT ![p] = "l36"]
    /\ UNCHANGED <<pDat, calls, outcome, result, reads, stages, work>>

\* Line 36: XPtr<BigMatrix> xpDat(pDat).
Attach(p) ==
    /\ pc[p] = "l36"
    /\ pc' = [pc EXCEPT ![p] = "l39"]
    /\ UNCHANGED <<pDat, calls, subsetIndices, outcome, result, reads, stages, work>>

\* Line 39: the left operand of ||; when it is true the right operand is
\* not evaluated and the check is over.
CheckLow(p) ==
    /\ pc[p] = "l39"
    /\ IF AnyNonPositive(subsetIndices[p])
       THEN /\ pc' = [pc EXCEPT ![p] = "l41"]
            /\ stages' = [stages EXCEPT ![p] = Append(@, "validate")]
       ELSE /\ pc' = [pc EXCEPT ![p] = "l40"]
            /\ UNCHANGED stages
    /\ UNCHANGED <<pDat, calls, subsetIndices, outcome, result, reads, work>>

\* Line 40: the right operand, reading the matrix's column count; the
\* check is over either way.
CheckHigh(p) ==
    /\ pc[p] = "l40"
    /\ IF AnyAboveNcol(subsetIndices[p], pDat.ncol)
       THEN pc' = [pc EXCEPT ![p] = "l41"]
       ELSE pc' = [pc EXCEPT ![p] = "l46"]
    /\ stages' = [stages EXCEPT ![p] = Append(@, "validate")]
    /\ UNCHANGED <<pDat, calls, subsetIndices, outcome, result, reads, work>>

\* Lines 41-44: throw std::out_of_range; unwinding destroys xpDat.
Throw(p) ==
    /\ pc[p] = "l41"
    /\ pc' = [pc EXCEPT ![p] = "done"]
    /\ outcome' = [outcome EXCEPT ![p] = "out_of_range"]
    /\ pDat' = ReleaseHandle(pDat)
    /\ UNCHANGED <<calls, subsetIndices, result, reads, stages, work>>

\* Lines 46-48: nothing follows the check, and the closing brace of a
\* function returning List is reached without a return statement.  The
\* behaviour is undefined: the call traps, or it returns to the caller with
\* a List that was never constructed.
FallOffEnd(p) ==
    /\ pc[p] = "l46"
    /\ pc' = [pc EXCEPT ![p] = "done"]
    /\ \/ /\ outcome' = [outcome EXCEPT ![p] = "crashed"]
          /\ UNCHANGED result
       \/ /\ outcome' = [outcome EXCEPT ![p] = "returned"]
          /\ \E g \in Indeterminate : result' = [result EXCEPT ![p] = g]
    /\ UNCHANGED <<pDat, calls, subsetIndices, reads, stages, work>>

Next ==
    \E p \in calls :
        \/ Invoke(p)
        \/ Attach(p)
        \/ CheckLow(p)
        \/ CheckHigh(p)
        \/ Throw(p)
        \/ FallOffEnd(p)

Spec == Init /\ [][Next]_vars

SpecConc == InitConc /\ [][Next]_vars

\* ---- vocabulary of the properties ----------------------------------------
Ended(p) == pc[p] = "done"

PastCheck(p) == pc[p] = "l46" \/ (Ended(p) /\ outcome[p] # "out_of_range")

\* Every entry is a column of the matrix.
InRange(idx, nc) == \A i \in 1..Len(idx) : 1 <= idx[i] /\ idx[i] <= nc

\* Some entry is below 1 or above the column count.
HasBadEntry(idx, nc) == \E i \in 1..Len(idx) : idx[i] < 1 \/ idx[i] > nc

RECURSIVE SumSeq(_)
SumSeq(s) == IF s = <<>> THEN 0 ELSE Head(s) + SumSeq(Tail(s))

Dot(u, v) == SumSeq([i \in 1..Len(u) |-> u[i] * v[i]])

\* The columns idx selects, in the order of idx.
Selection(idx) == [j \in 1..Len(idx) |-> pDat.matrix[idx[j]]]

\* K times the row-wise average of the selected columns.
RowSum(cols) ==
    [i \in 1..pDat.nrow |-> SumSeq([j \in 1..Len(cols) |-> cols[j][i]])]

IsConstant(col) == \A i \in 1..Len(col) : col[i] = col[1]

\* Zero total variance: every selected column is constant.
Degenerate(idx) == \A j \in 1..Len(idx) : IsConstant(pDat.matrix[idx[j]])

\* A call on a non-empty list of valid columns.
ValidCall(p) ==
    /\ Len(subsetIndices[p]) >= 1
    /\ InRange(subsetIndices[p], pDat.ncol)

Returned(p) == Ended(p) /\ outcome[p] = "returned"

AllStages == <<"validate", "materialize", "decompose", "finalize">>

IsPrefix(s, t) == Len(s) <= Len(t) /\ \A i \in 1..Len(s) : s[i] = t[i]

\* The documented fallback for a degenerate subset: a zero vector with zero
\* variance explained.
Fallback ==
    [eigenvector |-> [i \in 1..pDat.nrow |-> 0], varianceExplained |-> 0,
     present |-> TRUE]

\* ---- properties ----------------------------------------------------------

\* C1: a call whose list holds an entry < 1 or > ncol, at any position and
\* whatever the other entries are, never gets past the check: it reads no
\* matrix element and ends in out_of_range without a result.
C1_BadEntryEndsOutOfRange ==
    \A p \in calls :
        HasBadEntry(subsetIndices[p], pDat.ncol) =>
            /\ reads[p] = 0
            /\ ~PastCheck(p)
            /\ Ended(p) => outcome[p] = "out_of_range" /\ result[p] = NoResult

\* The part of C1 the check does enforce: an entry that is an ordinary
\* integer outside 1..ncol stops the call before any read.
BadNumberEndsOutOfRange ==
    \A p \in calls :
        (\E i \in 1..Len(subsetIndices[p]) :
            /\ subsetIndices[p][i] # NA_INTEGER
            /\ (subsetIndices[p][i] < 1 \/ subsetIndices[p][i] > pDat.ncol)) =>
            /\ reads[p] = 0
            /\ ~PastCheck(p)
            /\ Ended(p) => outcome[p] = "out_of_range" /\ result[p] = NoResult

\* C2: a call that has ended either reported an error and returned nothing,
\* or returned a complete pair (an eigenvector of nrow entries and a
\* variance explained).
C2_ResultOrReportedError ==
    \A p \in calls :
        Ended(p) =>
            \/ /\ outcome[p] \in {"out_of_range", "degenerate_input",
                                  "allocation_failure"}
               /\ result[p] = NoResult
            \/ /\ outcome[p] = "returned"
               /\ result[p].present
               /\ Len(result[p].eigenvector) = pDat.nrow

\* C3: on a valid, non-degenerate input the returned eigenvector has a
\* non-negative dot product with the row-wise average of the selected
\* columns.
C3_SignMatchesAverage ==
    \A p \in calls :
        (/\ Returned(p)
         /\ ValidCall(p)
         /\ ~Degenerate(subsetIndices[p])
         /\ Len(result[p].eigenvector) = pDat.nrow) =>
            Dot(result[p].eigenvector,
                RowSum(Selection(subsetIndices[p]))) >= 0

\* C4: a call on a subset whose columns are all constant ends in
\* degenerate_input, or returns the documented fallback.
C4_DegenerateReported ==
    \A p \in calls :
        (Ended(p) /\ ValidCall(p) /\ Degenerate(subsetIndices[p])) =>
            \/ outcome[p] = "degenerate_input" /\ result[p] = NoResult
            \/ outcome[p] = "returned" /\ result[p] = Fallback

\* C5: on a valid, non-degenerate input the returned variance explained
\* (in percent) lies in (0, 100], and is 100 for a single column.
C5_VarianceExplainedInRange ==
    \A p \in calls :
        (Returned(p) /\ ValidCall(p) /\ ~Degenerate(subsetIndices[p])) =>
            /\ 0 < result[p].varianceExplained
            /\ result[p].varianceExplained <= 100
            /\ Len(subsetIndices[p]) = 1 => result[p].varianceExplained = 100

\* C6: no step of any call changes the backing matrix, neither its
\* dimensions nor an element.
C6_BackingMatrixUnchanged == [][pDat' = pDat]_vars

\* C6 witness: a call has run to its end by throwing, the path on which
\* the handle is released.
C6_CallEndedByThrow ==
    \E p \in calls : Ended(p) /\ outcome[p] = "out_of_range"

\* C7: once a call on validated indices is through, its working matrix has
\* one column per index, column j being column subsetIndices[j] of the
\* backing matrix.
C7_WorkingMatrixIsSelection ==
    \A p \in calls :
        (Returned(p) /\ ValidCall(p)) =>
            /\ Len(work[p]) = Len(subsetIndices[p])
            /\ \A j \in 1..Len(work[p]) :
                  work[p][j] = pDat.matrix[subsetIndices[p][j]]

\* C8: the stages run in the order validate, materialize, decompose,
\* finalize, each at most once; a call that returns has run all four; no
\* matrix element is read before validation is over.
C8_StagesInOrder ==
    \A p \in calls :
        /\ IsPrefix(stages[p], AllStages)
        /\ reads[p] > 0 => Len(stages[p]) >= 1
        /\ Returned(p) => stages[p] = AllStages

C10_PastCheckImpliesInRange ==
    \A p \in calls :
        PastCheck(p) => InRange(subsetIndices[p], pDat.ncol)

====
